---- MODULE Spec2Model ----
(***************************************************************************)
(* Kovak clipboard-history utility (src/kovak.py).                         *)
(*                                                                         *)
(* Strings that the program inspects character by character (clipboard     *)
(* text, URL strings, list rows, search terms) are sequences of            *)
(* one-character strings.  Hotkey strings, which the program only compares *)
(* and hands to the keyboard library, are TLA+ strings.                    *)
(*                                                                         *)
(* A history entry is the tuple the program stores:                        *)
(*   <<"image", label, image>>, <<"urls", display>>, <<"text", text>>.     *)
(* Python's None is the empty tuple.                                       *)
(***************************************************************************)
EXTENDS Integers, Sequences, FiniteSets, TLC

VARIABLES
    clipboard,      \* system clipboard: [img, urls, text]
    history,        \* self.history
    rows,           \* self.listWidget item texts, in display order
    marked,         \* per row: background is the yellow highlight brush
    previous_text,  \* self.previous_text
    scrolled,       \* row index handed to scrollToItem by the last findInList, 0 if none
    settings_file,  \* content of <home>/Kovak/settings.json
    settings,       \* self.settings, a dict as a set of <<key, value>> pairs
    hooks,          \* handlers the keyboard library has hooked: [hotkey, owner]
    table,          \* keyboard._hotkeys restricted to hotkey strings: the owner
                    \* of the remover stored under the string, NoEntry if none
    pending,        \* started HotkeyThreads whose run() has not executed: <<instance, hotkey>>
    hotkey_thread,  \* instance number of self.hotkey_thread, 0 before construction
    signals,        \* emitted hotkey_signal deliveries queued for the UI thread
    visible,        \* self.isVisible()
    pc,             \* position of the UI thread: <<"idle">> or inside apply_changes
    outcome,        \* dialog shown or exception left uncaught by the last handler
    alive,          \* the process is running
    op              \* the handler that ran last, with its input

clipvars == <<clipboard, history, rows, marked, previous_text, scrolled>>
hotvars == <<settings_file, settings, hooks, table, pending, hotkey_thread,
             signals, visible, pc, outcome, alive>>
vars == <<clipvars, hotvars, op>>

\* ---------------------------------------------------------------- bounds
MaxHistory == 3
MaxThreads == 3
MaxSignals == 2

\* ------------------------------------------------------- python values
None == <<>>

\* ------------------------------------------------------------- strings
Upper == <<"A","B","C","D","E","F","G","H","I","J","K","L","M",
           "N","O","P","Q","R","S","T","U","V","W","X","Y","Z">>
LowerLetters == <<"a","b","c","d","e","f","g","h","i","j","k","l","m",
                  "n","o","p","q","r","s","t","u","v","w","x","y","z">>

LowerChar(c) ==
    IF \E k \in 1..26 : Upper[k] = c
    THEN LowerLetters[CHOOSE k \in 1..26 : Upper[k] = c]
    ELSE c

\* str.lower()
Lower(s) == [k \in 1..Len(s) |-> LowerChar(s[k])]

\* needle in hay
Contains(hay, needle) ==
    \E k \in 0..(Len(hay) - Len(needle)) :
        \A j \in 1..Len(needle) : hay[k + j] = needle[j]

\* s.endswith(suffix)
EndsWith(s, suffix) ==
    /\ Len(suffix) <= Len(s)
    /\ \A j \in 1..Len(suffix) : s[Len(s) - Len(suffix) + j] = suffix[j]

RECURSIVE Join(_, _)
\* sep.join(parts)
Join(sep, parts) ==
    IF parts = <<>> THEN <<>>
    ELSE IF Len(parts) = 1 THEN parts[1]
    ELSE parts[1] \o sep \o Join(sep, Tail(parts))

\* --------------------------------------------------- environment: data
\* Pixel contents the clipboard can deliver.  "null" is the null QImage
\* (hasImage() holds but the data does not decode).
NoImage == "none"

\* hexdigest of the md5 of the PNG encoding, abbreviated to two digits.
\* p1 and p2 are two pixel contents whose digests collide; a null image
\* encodes to the empty buffer.
ImageHash(image) ==
    CASE image = "null" -> <<"d","4">>
      [] image = "p1"   -> <<"a","1">>
      [] image = "p2"   -> <<"a","1">>
      [] image = "p3"   -> <<"c","3">>

\* image.isNull()
IsNull(image) == image = "null"

LabelPrefix == <<"I","m","a","g","e"," ","w","h","i","c","h"," ","h","a","s"," ",
                 "n","o"," ","p","a","t","h"," ","(","h","a","s","h",":"," ">>

\* f"Image which has no path (hash: {image_hash})"
ImageLabel(image) == LabelPrefix \o ImageHash(image) \o <<")">>

T_plain == <<"A","b">>
T_file  == <<"/","f">>
T_png   == <<"/","i",".","P","N","G">>
T_url   == <<"u",":","x">>
Url_v   == <<"v",":","y">>

\* os.path.exists(text) and os.path.isfile(text)
ExistingFiles == {T_file, T_png}
IsFile(text) == text \in ExistingFiles

\* QImage(path): the pixel content of a readable image file, else null
LoadImage(path) == IF path = T_png THEN "p3" ELSE "null"

ImageSuffixes == { <<".","p","n","g">>, <<".","j","p","g">>, <<".","j","p","e","g">>,
                   <<".","b","m","p">>, <<".","g","i","f">> }

\* QUrl(text).isValid()
InvalidUrlTexts == { <<>> }
UrlIsValid(text) == text \notin InvalidUrlTexts

\* QUrl.fromLocalFile(text).toString()
FromLocalFile(text) ==
    IF text # <<>> /\ text[1] = "/"
    THEN <<"f","i","l","e",":","/","/">> \o text
    ELSE <<"f","i","l","e",":">> \o text

\* A clipboard content: img is a pixel content or NoImage, urls the list
\* of URL strings (url.toString()), text <<>> when no text is offered and
\* <<t>> when text t is offered.
Clip(i, u, t) == [img |-> i, urls |-> u, text |-> t]

ClipboardContents ==
    { Clip(NoImage, <<>>, <<>>),
      Clip(NoImage, <<>>, <<T_plain>>),
      Clip(NoImage, <<>>, <<T_file>>),
      Clip(NoImage, <<>>, <<T_png>>),
      Clip(NoImage, <<>>, <<T_url>>),
      Clip(NoImage, <<T_url>>, <<>>),
      Clip(NoImage, <<T_url, Url_v>>, <<T_plain>>),
      Clip("p1", <<>>, <<>>),
      Clip("p2", <<>>, <<T_plain>>),
      Clip("null", <<>>, <<>>),
      Clip("p1", <<T_url>>, <<>>),
      Clip("p1", <<T_url>>, <<T_plain>>) }

\* -------------------------------------------------------- check_clipboard
hasImage(c) == c.img # NoImage
hasUrls(c)  == c.urls # <<>>
hasText(c)  == c.text # <<>>

\* any(stored[0] == "image" and stored[1] == image_path for stored in self.history)
LabelInHistory(h, label) ==
    \E k \in 1..Len(h) : h[k][1] = "image" /\ h[k][2] = label

\* the chain testing hasText first, then hasUrls, then hasImage
CurrentDataTextFirst(c) ==
    IF hasText(c) THEN <<"text", c.text[1]>>
    ELSE IF hasUrls(c) THEN <<"urls", Join(<<",", " ">>, c.urls)>>
    ELSE IF hasImage(c) THEN <<"image", ImageLabel(c.img), c.img>>
    ELSE None

\* current_data as classified by the if / elif / elif chain
CurrentData(c) ==
    IF hasImage(c) THEN <<"image", ImageLabel(c.img), c.img>>
    ELSE IF hasUrls(c) THEN <<"urls", Join(<<",", " ">>, c.urls)>>
    ELSE IF hasText(c) THEN <<"text", c.text[1]>>
    ELSE None

\* the image branch without its early return
EarlyReturnNever(c, h) == FALSE

\* the early return taken for a stored entry of any variant
EarlyReturnAnyVariant(c, h) ==
    \/ hasImage(c) /\ LabelInHistory(h, ImageLabel(c.img))
    \/ ~hasImage(c) /\ CurrentData(c) # None
          /\ \E k \in 1..Len(h) : h[k] = CurrentData(c)

\* the early return taken inside the image branch
EarlyReturn(c, h) == hasImage(c) /\ LabelInHistory(h, ImageLabel(c.img))

\* current_data in self.history
InHistory(h, entry) == \E k \in 1..Len(h) : h[k] = entry

\* the comparison with self.previous_text left out
IsNewObservationIgnoresLast(cd, prev) == cd # None

\* current_data and (current_data != self.previous_text)
IsNewObservation(cd, prev) == cd # None /\ cd # prev

\* self.history.insert(0, current_data)
PrependEntry(h, entry) == <<entry>> \o h

\* self.history.append(current_data)
AppendEntry(h, entry) == Append(h, entry)

\* the first observation treated like any other
IsFirstObservationNever(prev) == FALSE

\* self.previous_text is None
IsFirstObservation(prev) == prev = None

\* the tick appends to the history
WillAppend(c, h, prev) ==
    /\ ~EarlyReturn(c, h)
    /\ IsNewObservation(CurrentData(c), prev)
    /\ ~IsFirstObservation(prev)
    /\ ~InHistory(h, CurrentData(c))

\* the UI thread is in its event loop, free to run a handler
UiIdle == alive /\ pc = <<"idle">>

check_clipboard ==
    /\ UiIdle
    /\ WillAppend(clipboard, history, previous_text) => Len(history) < MaxHistory
    /\ op' = <<"check_clipboard", IF op[1] = "clearHistory" THEN op ELSE <<op[1]>>>>
    /\ LET cd == CurrentData(clipboard) IN
       IF EarlyReturn(clipboard, history)
       THEN UNCHANGED <<history, rows, marked, previous_text>>
       ELSE IF IsNewObservation(cd, previous_text)
       THEN IF IsFirstObservation(previous_text)
            THEN /\ previous_text' = cd
                 /\ UNCHANGED <<history, rows, marked>>
            ELSE /\ IF ~InHistory(history, cd)
                    THEN /\ history' = AppendEntry(history, cd)
                         /\ rows' = rows \o <<cd[2], <<>>>>
                         /\ marked' = marked \o <<FALSE, FALSE>>
                    ELSE UNCHANGED <<history, rows, marked>>
                 /\ previous_text' = cd
       ELSE UNCHANGED <<history, rows, marked, previous_text>>
    /\ UNCHANGED <<clipboard, scrolled, hotvars>>

\* ----------------------------------------------------------- clearHistory
\* clearHistory without the reset of self.previous_text
clearHistoryKeepsLastObserved ==
    /\ UiIdle
    /\ op' = <<"clearHistory", Len(history)>>
    /\ history' = <<>>
    /\ rows' = <<>>
    /\ marked' = <<>>
    /\ UNCHANGED <<clipboard, previous_text, scrolled, hotvars>>

\* clearHistory without self.listWidget.clear()
clearHistoryKeepsRows ==
    /\ UiIdle
    /\ op' = <<"clearHistory", Len(history)>>
    /\ history' = <<>>
    /\ previous_text' = None
    /\ UNCHANGED <<clipboard, rows, marked, scrolled, hotvars>>

clearHistory ==
    /\ UiIdle
    /\ op' = <<"clearHistory", Len(history)>>
    /\ history' = <<>>
    /\ rows' = <<>>
    /\ marked' = <<>>
    /\ previous_text' = None
    /\ UNCHANGED <<clipboard, scrolled, hotvars>>

\* -------------------------------------------------------- copyToClipboard
\* first stored image entry whose label is the text and whose image is not null
ImageMatches(h, text) ==
    { k \in 1..Len(h) : h[k][1] = "image" /\ h[k][2] = text /\ ~IsNull(h[k][3]) }

\* any(text == stored[1] for stored in self.history if ... stored[0] == "urls")
UrlsMatch(h, text) == \E k \in 1..Len(h) : h[k][1] = "urls" /\ h[k][2] = text

\* any(text == stored for stored in self.history if isinstance(stored, str)):
\* every stored entry is a tuple, so no entry passes the isinstance filter
IsStr(stored) == FALSE
TextMatch(h, text) == \E k \in 1..Len(h) : IsStr(h[k]) /\ h[k] = text

\* text.lower().endswith((".png", ".jpg", ".jpeg", ".bmp", ".gif"))
HasImageSuffix(text) == \E s \in ImageSuffixes : EndsWith(Lower(text), s)

\* the final else writing a file URL instead of the text
FallbackAsUrl(text) == Clip(NoImage, <<FromLocalFile(text)>>, <<>>)

\* mime_data.setText(text) in the final else
Fallback(text) == Clip(NoImage, <<>>, <<text>>)

\* the payload that ends up on the clipboard
Restored(h, text) ==
    IF ImageMatches(h, text) # {}
    THEN Clip(h[CHOOSE k \in ImageMatches(h, text) :
                 \A j \in ImageMatches(h, text) : k <= j][3], <<>>, <<>>)
    ELSE IF UrlsMatch(h, text)
    THEN Clip(NoImage, <<IF UrlIsValid(text) THEN text ELSE FromLocalFile(text)>>, <<>>)
    ELSE IF TextMatch(h, text)
    THEN Clip(NoImage, <<>>, <<text>>)
    ELSE IF IsFile(text)
    THEN IF HasImageSuffix(text) /\ ~IsNull(LoadImage(text))
         THEN Clip(LoadImage(text), <<>>, <<>>)
         ELSE Clip(NoImage, <<FromLocalFile(text)>>, <<>>)
    ELSE Fallback(text)

copyToClipboard(i) ==
    /\ UiIdle
    /\ op' = <<"copyToClipboard", i>>
    /\ clipboard' = Restored(history, rows[i])
    /\ UNCHANGED <<history, rows, marked, previous_text, scrolled, hotvars>>

\* ---------------------------------------------- findInList / resetHighlighting
\* search_term in item.text()
RowMatchesCaseSensitive(term, itemText) == Contains(itemText, term)

\* search_term in item.text().lower()
RowMatches(term, itemText) == Contains(Lower(itemText), term)

RECURSIVE FindLoop(_, _, _, _)
\* the for loop over the list items; acc carries the item backgrounds, the
\* item handed to scrollToItem and the first_match flag
FindLoop(i, items, term, acc) ==
    IF i > Len(items) THEN acc
    ELSE IF RowMatches(term, items[i])
    THEN FindLoop(i + 1, items, term,
                  [marked      |-> [acc.marked EXCEPT ![i] = TRUE],
                   scrolled    |-> IF acc.first_match THEN i ELSE acc.scrolled,
                   first_match |-> FALSE])
    ELSE FindLoop(i + 1, items, term,
                  [acc EXCEPT !.marked = [acc.marked EXCEPT ![i] = FALSE]])

\* the text typed into the search field
Queries == { <<>>, <<"A","B">>, <<"p","n","g">>, <<"U",":">>, <<"z">> }

findInList(q) ==
    /\ UiIdle
    /\ op' = <<"findInList", q>>
    /\ LET res == FindLoop(1, rows, Lower(q),
                           [marked |-> marked, scrolled |-> 0, first_match |-> TRUE])
       IN /\ marked' = res.marked
          /\ scrolled' = res.scrolled
    /\ UNCHANGED <<clipboard, history, rows, previous_text, hotvars>>

resetHighlighting ==
    /\ UiIdle
    /\ op' = <<"resetHighlighting">>
    /\ marked' = [i \in 1..Len(rows) |-> FALSE]
    /\ UNCHANGED <<clipboard, history, rows, previous_text, scrolled, hotvars>>

\* ------------------------------------------------------------ environment
\* another application puts content on the clipboard
SetClipboard ==
    /\ \E c \in ClipboardContents : clipboard' = c
    /\ op' = <<"SetClipboard">>
    /\ UNCHANGED <<history, rows, marked, previous_text, scrolled, hotvars>>

\* ------------------------------------------------------------- settings
\* hotkey strings typed into the dialog or found in the settings file
HotkeyStrings == {"shift+space", "ctrl+k", "bogus", ""}

\* keyboard.parse_hotkey accepts the string (no ValueError)
Parseable(hotkey) == hotkey \in {"shift+space", "ctrl+k"}

\* a dict {"hotkey": h}
Dict(hotkey) == { <<"hotkey", hotkey>> }

\* "hotkey" in settings
HasHotkey(d) == \E kv \in d : kv[1] = "hotkey"

\* settings["hotkey"]
HotkeyOf(d) == (CHOOSE kv \in d : kv[1] = "hotkey")[2]

\* the settings file, by what reading it does:
\*   <<"missing">>    no file: open raises FileNotFoundError
\*   <<"raises", e>>  a file on which json.load raises e: JSONDecodeError
\*                    for a text that is not JSON (an empty file included),
\*                    RecursionError for a text nested deeper than the
\*                    interpreter's recursion limit, UnicodeDecodeError for
\*                    bytes that do not decode as text
\*   <<"json", d>>    a text json.load returns the object d for
LoadExceptions == {"JSONDecodeError", "RecursionError", "UnicodeDecodeError"}

FileContents ==
    { <<"missing">>, <<"json", {}>> }
        \cup { <<"raises", e>> : e \in LoadExceptions }
        \cup { <<"json", Dict(h)>> : h \in {"shift+space", "ctrl+k", "bogus"} }

\* line 41: except (FileNotFoundError, json.JSONDecodeError)
CaughtByLoad == {"FileNotFoundError", "JSONDecodeError"}

\* the exception lines 37-39 raise on the file, "none" when they return
RaisedByLoad(file) ==
    IF file[1] = "missing" THEN "FileNotFoundError"
    ELSE IF file[1] = "raises" THEN file[2]
    ELSE "none"

\* load_settings raises to its caller
LoadRaises(file) == RaisedByLoad(file) \notin (CaughtByLoad \cup {"none"})

\* the dict load_settings returns, or the exception it raises
load_settings(file) ==
    IF LoadRaises(file) THEN RaisedByLoad(file)
    ELSE IF RaisedByLoad(file) \in CaughtByLoad THEN Dict("shift+space")
    ELSE file[2]

\* json.dump(settings, file) when the write succeeds
save_settings(d) == <<"json", d>>

\* the file after a save_settings that raised: open(path, "w") failed and
\* the file is as it was, or the write failed after open had truncated it
FailedSave(file) == { file, <<"raises", "JSONDecodeError">> }

\* ------------------------------------------------------ keyboard library
NoEntry == -1
Probe == 0

\* keyboard.add_hotkey(hotkey, callback) for a parseable hotkey: hooks the
\* handler and stores its remover under the string, replacing a stored one
AddedHooks(hk, hotkey, owner) == hk \cup { [hotkey |-> hotkey, owner |-> owner] }
AddedTable(tb, hotkey, owner) == [tb EXCEPT ![hotkey] = owner]

\* a remover that deletes the entry and leaves the handler hooked
RemovedHooksNothing(hk, tb, hotkey) == hk

\* keyboard.remove_hotkey(hotkey) when the string is in _hotkeys: runs the
\* stored remover, which unhooks its handler and deletes the entry
RemovedHooks(hk, tb, hotkey) == hk \ { [hotkey |-> hotkey, owner |-> tb[hotkey]] }
RemovedTable(tb, hotkey) == [tb EXCEPT ![hotkey] = NoEntry]

\* an uncaught exception in a slot or in QThread.run either ends the
\* process (qFatal) or is printed, depending on the PyQt5 build
AfterUncaught == alive' \in BOOLEAN

\* --------------------------------------------------------- HotkeyThread
\* run(): keyboard.add_hotkey(self.hotkey, lambda: self.hotkey_signal.emit())
HotkeyThread_run(k) ==
    /\ alive
    /\ op' = <<"HotkeyThread.run", pending[k][2]>>
    /\ pending' = [j \in 1..(Len(pending) - 1) |->
                      IF j < k THEN pending[j] ELSE pending[j + 1]]
    /\ IF Parseable(pending[k][2])
       THEN /\ hooks' = AddedHooks(hooks, pending[k][2], pending[k][1])
            /\ table' = AddedTable(table, pending[k][2], pending[k][1])
            /\ UNCHANGED <<outcome, alive>>
       ELSE /\ outcome' = "ValueError"
            /\ AfterUncaught
            /\ UNCHANGED <<hooks, table>>
    /\ UNCHANGED <<clipvars, settings_file, settings, hotkey_thread, signals,
                   visible, pc>>

\* the registered callback calling toggle_visibility itself
HotkeyPressedDirect ==
    /\ alive
    /\ signals < MaxSignals
    /\ \E h \in hooks : h.owner # Probe /\ op' = <<"hotkey_signal.emit", h.hotkey>>
    /\ visible' = ~visible
    /\ UNCHANGED <<clipvars, settings_file, settings, hooks, table, pending,
                   hotkey_thread, signals, pc, outcome, alive>>

\* the registered callback: a pressed hotkey emits hotkey_signal
HotkeyPressed ==
    /\ alive
    /\ signals < MaxSignals
    /\ \E h \in hooks : h.owner # Probe /\ op' = <<"hotkey_signal.emit", h.hotkey>>
    /\ signals' = signals + 1
    /\ UNCHANGED <<clipvars, settings_file, settings, hooks, table, pending,
                   hotkey_thread, visible, pc, outcome, alive>>

\* the slot connected to hotkey_signal, run by the UI thread
toggle_visibility ==
    /\ UiIdle
    /\ signals > 0
    /\ op' = <<"toggle_visibility">>
    /\ signals' = signals - 1
    /\ visible' = ~visible
    /\ UNCHANGED <<clipvars, settings_file, settings, hooks, table, pending,
                   hotkey_thread, pc, outcome, alive>>

\* closeEvent: the user closes the window; the event is ignored and the
\* window hidden to the tray
closeEvent ==
    /\ UiIdle
    /\ visible
    /\ op' = <<"closeEvent">>
    /\ visible' = FALSE
    /\ UNCHANGED <<clipvars, settings_file, settings, hooks, table, pending,
                   hotkey_thread, signals, pc, outcome, alive>>

\* the tray menu's Exit: QApplication.quit ends the process
quit ==
    /\ UiIdle
    /\ op' = <<"quit">>
    /\ alive' = FALSE
    /\ UNCHANGED <<clipvars, settings_file, settings, hooks, table, pending,
                   hotkey_thread, signals, visible, pc, outcome>>

\* ------------------------------------------- SettingsDialog.apply_changes
\* the comparison with the current hotkey left out
SameHotkeyNever(new_hotkey, current_hotkey) == FALSE

\* new_hotkey == current_hotkey
SameHotkey(new_hotkey, current_hotkey) == new_hotkey = current_hotkey

\* lines 89-97: the comparison with the current hotkey and the probe
apply_changes(new_hotkey) ==
    /\ UiIdle
    /\ op' = <<"apply_changes", new_hotkey>>
    /\ LET current_hotkey == HotkeyOf(settings) IN
       IF SameHotkey(new_hotkey, current_hotkey)
       THEN /\ outcome' = "information"
            /\ UNCHANGED <<hooks, table, pc>>
       ELSE IF ~Parseable(new_hotkey)
       THEN /\ outcome' = "critical"
            /\ UNCHANGED <<hooks, table, pc>>
       ELSE /\ hotkey_thread < MaxThreads
            /\ hooks' = AddedHooks(hooks, new_hotkey, Probe)
            /\ table' = AddedTable(table, new_hotkey, Probe)
            /\ pc' = <<"l98", new_hotkey, current_hotkey>>
            /\ UNCHANGED outcome
    /\ UNCHANGED <<clipvars, settings_file, settings, pending, hotkey_thread,
                   signals, visible, alive>>

\* line 98: keyboard.remove_hotkey(new_hotkey)
apply_changes_l98 ==
    /\ alive
    /\ pc[1] = "l98"
    /\ op' = <<"apply_changes:98">>
    /\ IF table[pc[2]] = NoEntry
       THEN /\ outcome' = "KeyError"
            /\ pc' = <<"idle">>
            /\ AfterUncaught
            /\ UNCHANGED <<hooks, table>>
       ELSE /\ hooks' = RemovedHooks(hooks, table, pc[2])
            /\ table' = RemovedTable(table, pc[2])
            /\ pc' = <<"l99", pc[2], pc[3]>>
            /\ UNCHANGED <<outcome, alive>>
    /\ UNCHANGED <<clipvars, settings_file, settings, pending, hotkey_thread,
                   signals, visible>>

\* line 99: keyboard.remove_hotkey(current_hotkey)
apply_changes_l99 ==
    /\ alive
    /\ pc[1] = "l99"
    /\ op' = <<"apply_changes:99">>
    /\ IF table[pc[3]] = NoEntry
       THEN /\ outcome' = "KeyError"
            /\ pc' = <<"idle">>
            /\ AfterUncaught
            /\ UNCHANGED <<hooks, table>>
       ELSE /\ hooks' = RemovedHooks(hooks, table, pc[3])
            /\ table' = RemovedTable(table, pc[3])
            /\ pc' = <<"l143", pc[2]>>
            /\ UNCHANGED <<outcome, alive>>
    /\ UNCHANGED <<clipvars, settings_file, settings, pending, hotkey_thread,
                   signals, visible>>

\* update_hotkey, lines 143-144: the conditional removal of the old hotkey
update_hotkey_l143 ==
    /\ alive
    /\ pc[1] = "l143"
    /\ op' = <<"update_hotkey:143">>
    /\ IF table[HotkeyOf(settings)] # NoEntry
       THEN /\ hooks' = RemovedHooks(hooks, table, HotkeyOf(settings))
            /\ table' = RemovedTable(table, HotkeyOf(settings))
       ELSE UNCHANGED <<hooks, table>>
    /\ pc' = <<"l146", pc[2]>>
    /\ UNCHANGED <<clipvars, settings_file, settings, pending, hotkey_thread,
                   signals, visible, outcome, alive>>

\* update_hotkey starting the fresh HotkeyThread before it stores the new
\* hotkey, so that the thread is bound to the old one
update_hotkey_l146_StaleThread ==
    /\ alive
    /\ pc[1] = "l146"
    /\ op' = <<"update_hotkey:146">>
    /\ settings' = (settings \ { kv \in settings : kv[1] = "hotkey" })
                       \cup Dict(pc[2])
    /\ pc' = <<"idle">>
    /\ \/ /\ settings_file' = save_settings(settings')
          /\ hotkey_thread' = hotkey_thread + 1
          /\ pending' = Append(pending, <<hotkey_thread', HotkeyOf(settings)>>)
          /\ outcome' = "closed"
          /\ UNCHANGED alive
       \/ /\ outcome' = "OSError"
          /\ AfterUncaught
          /\ settings_file' \in FailedSave(settings_file)
          /\ UNCHANGED <<hotkey_thread, pending>>
    /\ UNCHANGED <<clipvars, hooks, table, signals, visible>>

\* update_hotkey, lines 146-148, and self.close(): the new setting is
\* stored and written, a fresh HotkeyThread is started; a failed write
\* leaves the handler with the exception and the file untouched or truncated
update_hotkey_l146 ==
    /\ alive
    /\ pc[1] = "l146"
    /\ op' = <<"update_hotkey:146">>
    /\ settings' = (settings \ { kv \in settings : kv[1] = "hotkey" })
                       \cup Dict(pc[2])
    /\ pc' = <<"idle">>
    /\ \/ /\ settings_file' = save_settings(settings')
          /\ hotkey_thread' = hotkey_thread + 1
          /\ pending' = Append(pending, <<hotkey_thread', pc[2]>>)
          /\ outcome' = "closed"
          /\ UNCHANGED alive
       \/ /\ outcome' = "OSError"
          /\ AfterUncaught
          /\ settings_file' \in FailedSave(settings_file)
          /\ UNCHANGED <<hotkey_thread, pending>>
    /\ UNCHANGED <<clipvars, hooks, table, signals, visible>>

\* the contents put on the clipboard while the find dialog is in use
SearchContents ==
    { Clip(NoImage, <<>>, <<T_plain>>),
      Clip(NoImage, <<>>, <<T_png>>),
      Clip(NoImage, <<T_url, Url_v>>, <<>>),
      Clip("p1", <<>>, <<>>) }

SetClipboardSearch ==
    /\ \E c \in SearchContents : clipboard' = c
    /\ op' = <<"SetClipboard">>
    /\ UNCHANGED <<history, rows, marked, previous_text, scrolled, hotvars>>

\* ------------------------------------------------------------------- spec
\* ClipboardManager.__init__ with the given clipboard and settings file
Constructed(c, file) ==
    /\ clipboard = c
    /\ history = <<>>
    /\ rows = <<>>
    /\ marked = <<>>
    /\ previous_text = None
    /\ scrolled = 0
    /\ settings_file = file
    /\ hooks = {}
    /\ table = [h \in HotkeyStrings |-> NoEntry]
    /\ signals = 0
    /\ pc = <<"idle">>
    /\ IF LoadRaises(file)
       THEN \* line 111 raises: self.settings is never assigned
            /\ settings = {}
            /\ pending = <<>>
            /\ hotkey_thread = 0
            /\ visible = FALSE
            /\ outcome = load_settings(file)
            /\ alive = FALSE
       ELSE /\ settings = load_settings(file)
            /\ IF HasHotkey(load_settings(file))
               THEN /\ pending = << <<1, HotkeyOf(load_settings(file))>> >>
                    /\ hotkey_thread = 1
                    /\ visible = TRUE
                    /\ outcome = "none"
                    /\ alive = TRUE
               ELSE /\ pending = <<>>
                    /\ hotkey_thread = 0
                    /\ visible = FALSE
                    /\ outcome = "KeyError"
                    /\ alive = FALSE
    /\ op = <<"init">>

Init == \E c \in ClipboardContents : Constructed(c, <<"missing">>)

Next ==
    \/ SetClipboard
    \/ check_clipboard
    \/ clearHistory
    \/ \E i \in 1..Len(rows) : copyToClipboard(i)

Spec == Init /\ [][Next]_vars

InitSearch == \E c \in SearchContents : Constructed(c, <<"missing">>)

NextSearch ==
    \/ SetClipboardSearch
    \/ check_clipboard
    \/ clearHistory
    \/ \E q \in Queries : findInList(q)
    \/ resetHighlighting

SpecSearch == InitSearch /\ [][NextSearch]_vars

InitHotkey == \E file \in FileContents : Constructed(Clip(NoImage, <<>>, <<>>), file)

NextHotkey ==
    \/ \E new_hotkey \in HotkeyStrings : apply_changes(new_hotkey)
    \/ apply_changes_l98
    \/ apply_changes_l99
    \/ update_hotkey_l143
    \/ update_hotkey_l146
    \/ \E k \in 1..Len(pending) : HotkeyThread_run(k)
    \/ HotkeyPressed
    \/ toggle_visibility
    \/ closeEvent
    \/ quit

SpecHotkey == InitHotkey /\ [][NextHotkey]_vars

\* The Qt event loop delivers every queued signal and the UI thread runs a
\* handler it has entered to its end.
SpecHotkeyFair ==
    /\ SpecHotkey
    /\ SF_vars(toggle_visibility)
    /\ WF_vars(apply_changes_l98)
    /\ WF_vars(apply_changes_l99)
    /\ WF_vars(update_hotkey_l143)
    /\ WF_vars(update_hotkey_l146)

\* ================================================================= claims
IsPrefix(s, t) == Len(s) <= Len(t) /\ \A k \in 1..Len(s) : s[k] = t[k]

\* a poll tick is the step that has just been taken
TickStep == op'[1] = "check_clipboard"

\* number of history entries equal to the entry
Occurrences(h, entry) == Cardinality({ k \in 1..Len(h) : h[k] = entry })

\* the kind of payload the clipboard holds
PayloadKind(c) ==
    IF hasImage(c) THEN "image"
    ELSE IF hasUrls(c) THEN "urls"
    ELSE IF hasText(c) THEN "text"
    ELSE "none"

\* the number of payloads the clipboard holds
PayloadCount(c) ==
    (IF hasImage(c) THEN 1 ELSE 0) + (IF hasUrls(c) THEN 1 ELSE 0)
        + (IF hasText(c) THEN 1 ELSE 0)

\* C1: History never holds two entries of the same variant with the same
\* identifying payload (text value, URL display string or image label).
C1_NoStructuralDuplicates ==
    \A i, j \in 1..Len(history) :
        i # j => ~(history[i][1] = history[j][1] /\ history[i][2] = history[j][2])

\* a tick has seen an image whose label collides with a stored image of
\* different pixels, next to a second entry
C1_Witness ==
    /\ op[1] = "check_clipboard"
    /\ Len(history) >= 2
    /\ hasImage(clipboard)
    /\ \E k \in 1..Len(history) :
          /\ history[k][1] = "image"
          /\ history[k][2] = ImageLabel(clipboard.img)
          /\ history[k][3] # clipboard.img

\* C2: with LastObserved unset, a tick that sees content X records X as
\* LastObserved, appends nothing and leaves History empty; while History is
\* empty and the clipboard keeps holding X, further ticks leave History
\* empty and LastObserved at X.
C2_FirstObservationSuppressed ==
    [][TickStep =>
        /\ (previous_text = None /\ CurrentData(clipboard) # None) =>
              /\ previous_text' = CurrentData(clipboard)
              /\ history = <<>>
              /\ history' = <<>>
              /\ rows' = <<>>
        /\ (history = <<>> /\ previous_text # None
                /\ CurrentData(clipboard) = previous_text) =>
              /\ history' = <<>>
              /\ previous_text' = previous_text]_vars

\* the tick after the first observation: the clipboard still holds X
C2_Witness ==
    /\ op = <<"check_clipboard", <<"check_clipboard">>>>
    /\ history = <<>>
    /\ previous_text # None
    /\ previous_text = CurrentData(clipboard)

\* C3: clearHistory empties History and the rows and unsets LastObserved;
\* the tick that follows the clear with no clipboard change in between
\* appends nothing: History is empty after it and LastObserved is the
\* snapshot it saw.
C3_ClearResetsBaseline ==
    [][/\ op'[1] = "clearHistory" =>
            history' = <<>> /\ rows' = <<>> /\ previous_text' = None
       /\ (op[1] = "clearHistory" /\ TickStep) =>
            /\ history' = <<>>
            /\ rows' = <<>>
            /\ previous_text' = CurrentData(clipboard)]_vars

\* a non-empty History was cleared and the next tick saw the text that was
\* on the clipboard
C3_Witness ==
    /\ op[1] = "check_clipboard"
    /\ op[2][1] = "clearHistory"
    /\ op[2][2] >= 1
    /\ history = <<>>
    /\ previous_text # None
    /\ previous_text[1] = "text"

\* C4: a tick whose snapshot equals LastObserved changes neither History,
\* the rows nor LastObserved; and a tick that appends a snapshot leaves
\* exactly one entry equal to it, so a text that stays on the clipboard
\* never accounts for two entries.
C4_DedupUnchangedClipboard ==
    [][TickStep =>
        /\ CurrentData(clipboard) = previous_text =>
              UNCHANGED <<history, rows, marked, previous_text>>
        /\ history' # history =>
              /\ history' = Append(history, CurrentData(clipboard))
              /\ Occurrences(history', CurrentData(clipboard)) = 1
        /\ \A k \in 1..Len(history') : Occurrences(history', history'[k]) = 1]_vars

\* a text was appended and the following tick saw the same text again
C4_Witness ==
    /\ op = <<"check_clipboard", <<"check_clipboard">>>>
    /\ previous_text # None
    /\ previous_text[1] = "text"
    /\ previous_text = CurrentData(clipboard)
    /\ Occurrences(history, previous_text) = 1

\* C5: every step other than clearHistory leaves the old History as a
\* prefix of the new one.
C5_AppendOnly ==
    [][op'[1] # "clearHistory" => IsPrefix(history, history')]_vars

\* a tick has appended to a non-empty History, and a restore has run on it
C5_Witness ==
    /\ op[1] = "copyToClipboard"
    /\ Len(history) >= 2

\* C6: restoring the display row of a History entry writes a payload of the
\* entry's variant: an image for an Image entry with non-null pixels, a URL
\* list for a UrlList entry, plain text for a Text entry.
C6_RestoreKeepsModality ==
    (op[1] = "copyToClipboard" /\ op[2] % 2 = 1) =>
        LET entry == history[(op[2] + 1) \div 2] IN
        (entry[1] = "image" => ~IsNull(entry[3])) =>
            PayloadKind(clipboard) = entry[1]

\* C7: a restore of a row whose text is no existing file, no Image label and
\* no UrlList display in History leaves exactly that text as plain text on
\* the clipboard; every restore writes exactly one payload.
C7_RestoreFallback ==
    op[1] = "copyToClipboard" =>
        LET text == rows[op[2]] IN
        /\ PayloadCount(clipboard) = 1
        /\ (/\ ~IsFile(text)
            /\ ~\E k \in 1..Len(history) :
                   history[k][1] \in {"image", "urls"} /\ history[k][2] = text)
           => clipboard = [img |-> NoImage, urls |-> <<>>, text |-> <<text>>]

\* the row of a Text entry that names no file was restored
C7_Witness ==
    /\ op[1] = "copyToClipboard"
    /\ rows[op[2]] = T_plain
    /\ clipboard.text = <<T_plain>>

\* C10: after findInList with query q, row i is marked iff the query occurs
\* in the row when letter case is ignored; the row scrolled to is the marked
\* row of smallest index, none when no row is marked; the empty query marks
\* every row.
C10_SearchMarksExactlyMatches ==
    op[1] = "findInList" =>
        LET q == op[2]
            Occurs(row) ==
                \E k \in 0..(Len(row) - Len(q)) :
                    \A j \in 1..Len(q) : LowerChar(row[k + j]) = LowerChar(q[j])
        IN /\ Len(marked) = Len(rows)
           /\ \A i \in 1..Len(rows) : marked[i] <=> Occurs(rows[i])
           /\ IF \E i \in 1..Len(rows) : marked[i]
              THEN /\ scrolled \in 1..Len(rows)
                   /\ marked[scrolled]
                   /\ \A i \in 1..(scrolled - 1) : ~marked[i]
              ELSE scrolled = 0
           /\ q = <<>> => \A i \in 1..Len(rows) : marked[i]

\* a search over rows marked by an earlier search: a row matches only when
\* case is ignored, an earlier row does not match
C10_Witness ==
    /\ op = <<"findInList", <<"p","n","g">>>>
    /\ Len(rows) >= 4
    /\ scrolled >= 3
    /\ rows[scrolled] = T_png
    /\ ~marked[1]

\* C8: apply_changes with the current hotkey shows the informational
\* message and changes nothing: hooks, keyboard table, in-memory settings,
\* settings file, listener instance and its pending start all stay.
C8_UnchangedHotkeyRejected ==
    [][(op'[1] = "apply_changes" /\ op'[2] = HotkeyOf(settings)) =>
          /\ outcome' = "information"
          /\ UNCHANGED <<hooks, table, settings, settings_file, hotkey_thread,
                         pending, pc, signals, visible, alive, clipvars>>]_vars

\* the current hotkey, registered by the listener, was applied again
C8_Witness ==
    /\ op[1] = "apply_changes"
    /\ op[2] = HotkeyOf(settings)
    /\ outcome = "information"
    /\ table[op[2]] = hotkey_thread
    /\ [hotkey |-> op[2], owner |-> hotkey_thread] \in hooks

\* C9: apply_changes with a string that does not parse shows the error
\* dialog, leaves every hooked handler and the keyboard table as they were,
\* leaves no probe hooked, and changes neither the in-memory settings nor
\* the settings file.
C9_InvalidHotkeyRejected ==
    [][(op'[1] = "apply_changes" /\ ~Parseable(op'[2])) =>
          /\ outcome' = "critical"
          /\ UNCHANGED <<hooks, table, settings, settings_file, pc>>
          /\ ~\E h \in hooks' : h.owner = Probe]_vars

\* C11: the in-memory settings always hold a hotkey that is a non-empty,
\* parseable key combination.
C11_SettingsHotkeyParseable ==
    /\ HasHotkey(settings)
    /\ HotkeyOf(settings) # ""
    /\ Parseable(HotkeyOf(settings))

\* the snapshot of a tick is an image whose label a stored entry carries
SnapshotLabelKnown ==
    /\ hasImage(clipboard)
    /\ \E k \in 1..Len(history) :
          history[k][1] = "image" /\ history[k][2] = ImageLabel(clipboard.img)

\* C12 as claimed: on a tick with LastObserved set and a snapshot that
\* differs from it, LastObserved is the snapshot after the tick.
C12_LastObservedFollowsAlways ==
    [][(/\ TickStep
        /\ previous_text # None
        /\ CurrentData(clipboard) # None
        /\ CurrentData(clipboard) # previous_text)
       => previous_text' = CurrentData(clipboard)]_vars

\* C12 amended: on such a tick LastObserved becomes the snapshot, also when
\* the snapshot is already in History, unless the snapshot is an image whose
\* label is already stored: then the tick changes nothing.
C12_LastObservedFollows ==
    [][(/\ TickStep
        /\ previous_text # None
        /\ CurrentData(clipboard) # None
        /\ CurrentData(clipboard) # previous_text)
       => IF SnapshotLabelKnown
          THEN UNCHANGED <<previous_text, history, rows>>
          ELSE previous_text' = CurrentData(clipboard)]_vars

\* a tick has run on an image with a stored label while LastObserved was
\* set to something else, and LastObserved did not follow
C12_Witness ==
    /\ op[1] = "check_clipboard"
    /\ previous_text # None
    /\ SnapshotLabelKnown
    /\ previous_text # CurrentData(clipboard)

\* C13: a restore of a row whose text is no Image label and no UrlList
\* display but the content of a Text entry writes that text as plain text,
\* also when the text names an existing file.
C13_TextEntryBeforeFile ==
    op[1] = "copyToClipboard" =>
        LET text == rows[op[2]] IN
        (/\ ~\E k \in 1..Len(history) :
                history[k][1] \in {"image", "urls"} /\ history[k][2] = text
         /\ \E k \in 1..Len(history) :
                history[k][1] = "text" /\ history[k][2] = text)
        => clipboard = [img |-> NoImage, urls |-> <<>>, text |-> <<text>>]

\* the hooked handlers that emit the toggle signal
ToggleHooks == { h \in hooks : h.owner # Probe }

\* C14: every apply_changes that got past the probe (a parseable hotkey
\* different from the current one) and whose settings write did not fail
\* ends with the new hotkey in the in-memory settings and in the settings
\* file, no toggle handler hooked for the old hotkey and a fresh listener
\* started for the new one.
C14_HotkeyChangeSucceeds ==
    [][(/\ pc[1] \in {"l98", "l99", "l143", "l146"}
        /\ pc'[1] = "idle"
        /\ outcome' # "OSError")
       => /\ outcome' = "closed"
          /\ HotkeyOf(settings') = pc[2]
          /\ settings_file' = <<"json", settings'>>
          /\ \A h \in ToggleHooks' : h.hotkey = pc[2]
          /\ \E k \in 1..Len(pending') : pending'[k] = <<hotkey_thread', pc[2]>>]_vars

\* C15: at most one toggle handler is hooked at any time, and the set of
\* hooked toggle handlers only changes between empty and one handler.
C15_AtMostOneToggleBinding ==
    /\ Cardinality(ToggleHooks) <= 1
    /\ [][/\ Cardinality(ToggleHooks') <= 1
          /\ ToggleHooks' # ToggleHooks => (ToggleHooks = {} \/ ToggleHooks' = {})]_vars

\* the listener started by a hotkey change has hooked its handler
C15_Witness ==
    /\ op[1] = "HotkeyThread.run"
    /\ hotkey_thread >= 2
    /\ ToggleHooks = { [hotkey |-> op[2], owner |-> hotkey_thread] }

\* C16: a firing only queues one signal and changes nothing the UI thread
\* owns; visibility changes only in steps of the UI thread (toggle_visibility
\* and closeEvent); toggle_visibility consumes one queued signal and flips
\* visibility; after a firing toggle_visibility eventually runs while the
\* process lives.
C16_FiringIsMarshaled ==
    /\ [][/\ op'[1] = "hotkey_signal.emit" =>
                /\ signals' = signals + 1
                /\ UNCHANGED <<visible, clipvars, settings, settings_file, pc, outcome>>
          /\ visible' # visible => op'[1] \in {"toggle_visibility", "closeEvent"}
          /\ op'[1] = "toggle_visibility" =>
                /\ pc = <<"idle">>
                /\ signals' = signals - 1
                /\ visible' = ~visible]_vars
    /\ (op[1] = "hotkey_signal.emit") ~> (op[1] = "toggle_visibility" \/ ~alive)

\* a firing was queued and consumed: the window is hidden
C16_Witness ==
    /\ op[1] = "toggle_visibility"
    /\ signals = 0
    /\ ~visible

\* C20: every hooked toggle handler is bound to the hotkey of the
\* in-memory settings.
C20_BindingAgreesWithSettings ==
    \A h \in ToggleHooks : HasHotkey(settings) /\ h.hotkey = HotkeyOf(settings)

\* after a hotkey change the fresh listener has hooked the new hotkey
C20_Witness ==
    /\ hotkey_thread >= 2
    /\ pc = <<"idle">>
    /\ \E h \in ToggleHooks : h.owner = hotkey_thread /\ h.hotkey = HotkeyOf(settings)

\* C17: the list holds two rows per History entry: the entry's display text
\* followed by a blank row, in History order.
C17_RowPairing ==
    /\ Len(rows) = 2 * Len(history)
    /\ \A i \in 1..Len(history) :
          /\ rows[2 * i - 1] = history[i][2]
          /\ rows[2 * i] = <<>>

\* a second entry was appended after a clipboard change: four rows
C17_Witness ==
    /\ op[1] = "check_clipboard"
    /\ op[2][1] = "SetClipboard"
    /\ Len(history) = 2
    /\ Len(rows) = 4
    /\ rows[3] = history[2][2]

\* C18: a tick takes the clipboard as an image when it offers one, else as
\* a URL list when it offers URLs, else as text when it offers text; with
\* none of them the tick changes neither History, the rows nor LastObserved.
C18_ClassificationPriority ==
    [][TickStep =>
        LET kind == IF clipboard.img # NoImage THEN "image"
                    ELSE IF Len(clipboard.urls) > 0 THEN "urls"
                    ELSE IF Len(clipboard.text) > 0 THEN "text"
                    ELSE "none"
            Agrees(entry) ==
                /\ entry[1] = kind
                /\ kind = "image" => entry[3] = clipboard.img
                /\ kind = "urls" => entry[2] = Join(<<",", " ">>, clipboard.urls)
                /\ kind = "text" => entry[2] = clipboard.text[1]
        IN /\ kind = "none" => UNCHANGED <<history, rows, marked, previous_text>>
           /\ previous_text' # previous_text => Agrees(previous_text')
           /\ history' # history => Agrees(history'[Len(history')])]_vars

\* a clipboard offering image, URLs and text was appended as an image
C18_Witness ==
    /\ op[1] = "check_clipboard"
    /\ clipboard.img # NoImage /\ clipboard.urls # <<>> /\ clipboard.text # <<>>
    /\ Len(history) >= 1
    /\ history[Len(history)] = <<"image", ImageLabel(clipboard.img), clipboard.img>>
    /\ previous_text = history[Len(history)]

\* C19: the tick that follows a restore, with no other clipboard change in
\* between, leaves History and the rows as they were.
C19_RestoreDoesNotFeedBack ==
    [][(op[1] = "copyToClipboard" /\ TickStep) => UNCHANGED <<history, rows>>]_vars

====
